---- MODULE Spec2Model ----
(***************************************************************************)
(* A model of cad120_data_reader.py (class CAD120_Data_Reader).            *)
(*                                                                         *)
(* Each component of the reader has its own specification over the shared  *)
(* variables below:                                                        *)
(*   SpecSeq    __make_sub_sequences                                       *)
(*   SpecKey    make_key / break_key                                       *)
(*   SpecObj    get_objects_annotation_data                                *)
(*   SpecTimes  __init__ (episode) and __read_sub_times                    *)
(*   SpecSkel   parse_skeleton_data                                        *)
(*   SpecCache  __init__ (build or load) and save                          *)
(*   SpecTrace  the world trace of one video (lines 321-333, 345-363) and  *)
(*              world_skeleton_trace_to_dict                               *)
(* Strings that the code splits or joins are sequences of one-character    *)
(* strings; the other strings are TLA+ strings.                            *)
(***************************************************************************)
EXTENDS Integers, Sequences, FiniteSets, TLC

VARIABLES
    \* ---- fields of the reader (self.*)
    sub_time_segmentation,  \* list of {subject_name, super_name, video_name, durations}
    sub_sequences,          \* list of {subject_name, super_name, video_name, sub_seq}
    \* ---- __make_sub_sequences: locals and position
    seq_pc,                 \* "loop" | "raised" | "done"
    seq_i,                  \* index of the video of the outer loop
    seq_d,                  \* index of the segment of the inner loop
    e_frame,                \* local e_frame
    sub_seq,                \* local sub_seq
    \* ---- make_key / break_key
    key_in,                 \* the triple <<subject_name, super_name, video_name>>
    key,                    \* the result of make_key, or None
    key_out,                \* the result of break_key, or None
    key_pc,                 \* "start" | "made" | "broken"
    \* ---- get_objects_annotation_data: parameters, locals and position
    obj_start_frame,        \* parameter start_frame (None or a frame)
    obj_end_frame,          \* parameter end_frame (None or a frame)
    obj_types,              \* obj_types.get(obj_id, 'unknown') for every object id
    frame_data,             \* frame -> (obj_id_str -> box)
    last_pos_frame,         \* local last_pos_frame, Unbound before its first assignment
    obj_file,               \* index of the detection file being read
    obj_nfiles,             \* number of files of the directory matching '<video>_obj'
    obj_nlines,             \* lines read from the file so far
    obj_prev_frame,         \* frame of the previous well-formed line of the file
    obj_line,               \* the line processed by the last step (lines 408-433), or None
    obj_nonzero,            \* per object id: the last non-zero box of a processed line, or None
    obj_last,               \* what the loop of line 393 got last: "none" | "eof" | "empty" | "malformed" | "line"
    obj_pc,                 \* "read" | "done" | "KeyError" | "UnboundLocalError"
    \* ---- __init__ (episode) and __read_sub_times
    episode,                \* self.episode: a key, or the empty string for None
    subject_names_active,   \* self.subject_names_active
    super_names_active,     \* self.super_names_active
    video_names_active,     \* self.video_names_active (empty for None)
    label_files,            \* the labeling.txt of every (subject, activity): exists, lines
    times_dict,             \* local dict sub_time_segmentation: (subject, activity) -> videos
    times_s,                \* index of the subject of the outer loop
    times_a,                \* index of the activity of the inner loop
    times_l,                \* index of the next line of the open file
    times_pc,               \* "init" | "open" | "lines" | "done" | "IOError"
    \* ---- parse_skeleton_data: parameters, locals and position
    skel_seed,              \* the numbers the fields of the file are made of
    skel_frames,            \* the frame field of every line before END
    skel_start_frame,       \* parameter start_frame (NoFrame for None)
    skel_end_frame,         \* parameter end_frame (NoFrame for None)
    skel_l,                 \* index of the line being read
    skel_i,                 \* loop variable i of line 512 (16 after the last joint)
    position,               \* local position, the field cursor
    joints3D,               \* frame -> (joint -> (x, y, z))
    joints2D,               \* frame -> (joint -> (x_2D, y_2D))
    skel_pc,                \* "line" | "joints" | "done"
    \* ---- __init__ and save: the reader, the raw tracks and the cache files
    reader,                 \* the arguments of the constructor and how it ended
    world_traces,           \* self.world_traces in a 1-tuple, <<>> without the attribute
    tracks_dir,             \* the files of an activity directory under raw_tracks_path
    disk,                   \* the cache files: filename -> pickled value
    saved,                  \* the reader whose save() ended last, in a 1-tuple
    opened,                 \* the files __init__ has opened or parsed
    \* ---- the world trace of one video and world_skeleton_trace_to_dict
    skeleton_pass_filter,   \* self.skeleton_pass_filter, a list of joint names
    tr_frame_data,          \* what get_objects_annotation_data returned
    tr_joints2D,            \* joints2D of parse_skeleton_data
    tr_pending,             \* the (t, name) pairs the loops of lines 347-348 / 356-357 still visit
    tr_calls,               \* the states given to add_object_state_to_trace so far
    world_trace,            \* world_trace.trace: timestamp -> (name -> state)
    sorted_timestamps,      \* local sorted_timestamps of world_skeleton_trace_to_dict
    dict_i,                 \* loop variable i of line 583, from 1
    dict_s,                 \* index in the pass filter of the loop of line 586
    ret,                    \* local ret: joint name -> list of (x, y)
    dict_from,              \* per (i, joint): the timestamp the state was copied from, if any
    tr_pc                   \* "objects" | "joints" | "built" | "dict" | "done" | "KeyError"

None == "None"

seqVars == <<sub_time_segmentation, sub_sequences, seq_pc, seq_i, seq_d, e_frame, sub_seq>>
keyVars == <<key_in, key, key_out, key_pc>>
objVars == <<obj_start_frame, obj_end_frame, obj_types, frame_data, last_pos_frame,
             obj_file, obj_nfiles, obj_nlines, obj_prev_frame, obj_line, obj_nonzero,
             obj_last, obj_pc>>
timesVars == <<episode, subject_names_active, super_names_active, video_names_active,
               label_files, times_dict, times_s, times_a, times_l, times_pc>>
skelVars == <<skel_seed, skel_frames, skel_start_frame, skel_end_frame, skel_l, skel_i,
              position, joints3D, joints2D, skel_pc>>
cacheVars == <<reader, world_traces, tracks_dir, disk, saved, opened>>
traceVars == <<skeleton_pass_filter, tr_frame_data, tr_joints2D, tr_pending, tr_calls,
               world_trace, sorted_timestamps, dict_i, dict_s, ret, dict_from, tr_pc>>
vars == <<seqVars, keyVars, objVars, timesVars, skelVars, cacheVars, traceVars>>

\* What each component leaves alone.
seqRest == <<keyVars, objVars, timesVars, skelVars, cacheVars, traceVars>>
keyRest == <<seqVars, objVars, timesVars, skelVars, cacheVars, traceVars>>
objRest == <<seqVars, keyVars, timesVars, skelVars, cacheVars, traceVars>>
\* __read_sub_times writes self.sub_time_segmentation
timesRest == <<sub_sequences, seq_pc, seq_i, seq_d, e_frame, sub_seq, keyVars, objVars,
               skelVars, cacheVars, traceVars>>
skelRest == <<seqVars, keyVars, objVars, timesVars, cacheVars, traceVars>>
\* __init__ and save use the fields of the reader and the label files
cacheRest == <<seq_pc, seq_i, seq_d, e_frame, sub_seq, keyVars, objVars,
               episode, subject_names_active, super_names_active, video_names_active,
               times_dict, times_s, times_a, times_l, times_pc, skelVars, traceVars>>
traceRest == <<seqVars, keyVars, objVars, timesVars, skelVars, cacheVars>>

Range(s) == {s[k] : k \in DOMAIN s}

\* All sequences over S of length lo..hi.
SeqsOf(S, lo, hi) == UNION {[1..n -> S] : n \in lo..hi}

(***************************************************************************)
(* __make_sub_sequences                                                    *)
(***************************************************************************)
MaxFrame == 3
MaxSegs == 2
MaxVideos == 2

SubNames == {"reaching", "moving"}

\* The record __read_sub_times builds for one label line (d2).
Segment(label, s, e) ==
    [sub_activity |-> label, start_frame |-> s, end_frame |-> e,
     duration_frames |-> e - s + 1]

\* The segments of a label file: end_frame >= start_frame.
Segments ==
    {Segment(l, se[1], se[2]) :
        l \in SubNames, se \in {x \in (0..MaxFrame) \X (0..MaxFrame) : x[1] <= x[2]}}

\* [label] * n of Python: empty when n <= 0.
Repeat(label, n) == [k \in 1..n |-> label]

\* The test of line 185 that raises ValueError.
SegmentRejected(d, e) == d["start_frame"] = e

SeqIdle ==
    /\ sub_time_segmentation = <<>>
    /\ sub_sequences = <<>>
    /\ seq_pc = "done"
    /\ seq_i = 1
    /\ seq_d = 1
    /\ e_frame = 0
    /\ sub_seq = <<>>

KeyIdle ==
    /\ key_in = <<<<>>, <<>>, <<>>>>
    /\ key = None
    /\ key_out = None
    /\ key_pc = "start"

ObjIdle ==
    /\ obj_start_frame = -1
    /\ obj_end_frame = -1
    /\ obj_types = <<>>
    /\ frame_data = <<>>
    /\ last_pos_frame = -2
    /\ obj_file = 1
    /\ obj_nfiles = 0
    /\ obj_nlines = 0
    /\ obj_prev_frame = 0
    /\ obj_line = <<>>
    /\ obj_nonzero = <<>>
    /\ obj_last = "none"
    /\ obj_pc = "done"

TimesIdle ==
    /\ episode = <<>>
    /\ subject_names_active = <<>>
    /\ super_names_active = <<>>
    /\ video_names_active = <<>>
    /\ label_files = <<>>
    /\ times_dict = <<>>
    /\ times_s = 1
    /\ times_a = 1
    /\ times_l = 1
    /\ times_pc = "done"

SkelIdle ==
    /\ skel_seed = <<0, 0, 0>>
    /\ skel_frames = <<>>
    /\ skel_start_frame = -1
    /\ skel_end_frame = -1
    /\ skel_l = 1
    /\ skel_i = 1
    /\ position = 1
    /\ joints3D = <<>>
    /\ joints2D = <<>>
    /\ skel_pc = "done"

CacheIdle ==
    /\ reader = [state |-> "none", load_from_files |-> FALSE, read_tracks |-> FALSE,
                 episode |-> <<>>]
    /\ world_traces = <<>>
    /\ tracks_dir = <<>>
    /\ disk = <<>>
    /\ saved = <<>>
    /\ opened = {}

TraceIdle ==
    /\ skeleton_pass_filter = <<>>
    /\ tr_frame_data = <<>>
    /\ tr_joints2D = <<>>
    /\ tr_pending = <<>>
    /\ tr_calls = <<>>
    /\ world_trace = <<>>
    /\ sorted_timestamps = <<>>
    /\ dict_i = 1
    /\ dict_s = 1
    /\ ret = <<>>
    /\ dict_from = <<>>
    /\ tr_pc = "done"

SeqRestIdle == KeyIdle /\ ObjIdle /\ TimesIdle /\ SkelIdle /\ CacheIdle /\ TraceIdle
KeyRestIdle == SeqIdle /\ ObjIdle /\ TimesIdle /\ SkelIdle /\ CacheIdle /\ TraceIdle
ObjRestIdle == SeqIdle /\ KeyIdle /\ TimesIdle /\ SkelIdle /\ CacheIdle /\ TraceIdle
SkelRestIdle == SeqIdle /\ KeyIdle /\ ObjIdle /\ TimesIdle /\ CacheIdle /\ TraceIdle
TraceRestIdle == SeqIdle /\ KeyIdle /\ ObjIdle /\ TimesIdle /\ SkelIdle /\ CacheIdle

\* The reader after __read_sub_times, about to call __make_sub_sequences.
InitSeq ==
    /\ \E n \in 1..MaxVideos :
         \E ds \in [1..n -> SeqsOf(Segments, 1, MaxSegs)] :
            sub_time_segmentation =
                [v \in 1..n |-> [subject_name |-> "Subject1",
                                 super_name |-> "having_meal",
                                 video_name |-> v,
                                 durations |-> ds[v]]]
    /\ sub_sequences = <<>>
    /\ seq_pc = "loop"
    /\ seq_i = 1
    /\ seq_d = 1
    /\ e_frame = 0
    /\ sub_seq = <<>>
    /\ SeqRestIdle

SeqInVideo == seq_pc = "loop" /\ seq_i <= Len(sub_time_segmentation)
SeqDurations == sub_time_segmentation[seq_i]["durations"]
SeqInSegment == SeqInVideo /\ seq_d <= Len(SeqDurations)

\* line 186: raise ValueError(subject, super, video)
RaiseValueError ==
    /\ SeqInSegment
    /\ SegmentRejected(SeqDurations[seq_d], e_frame)
    /\ seq_pc' = "raised"
    /\ UNCHANGED <<sub_time_segmentation, sub_sequences, seq_i, seq_d, e_frame, sub_seq>>
    /\ UNCHANGED seqRest

\* lines 187-188
ExpandSegment ==
    /\ SeqInSegment
    /\ ~SegmentRejected(SeqDurations[seq_d], e_frame)
    /\ LET d == SeqDurations[seq_d] IN
         /\ e_frame' = d["end_frame"]
         /\ sub_seq' = sub_seq \o Repeat(d["sub_activity"], d["duration_frames"])
    /\ seq_d' = seq_d + 1
    /\ UNCHANGED <<sub_time_segmentation, sub_sequences, seq_pc, seq_i>>
    /\ UNCHANGED seqRest

\* lines 189-191, then lines 181-183 of the next video
AppendSubSequence ==
    /\ SeqInVideo
    /\ seq_d > Len(SeqDurations)
    /\ LET i == sub_time_segmentation[seq_i] IN
         sub_sequences' = Append(sub_sequences,
             [subject_name |-> i["subject_name"], super_name |-> i["super_name"],
              video_name |-> i["video_name"], sub_seq |-> sub_seq])
    /\ seq_i' = seq_i + 1
    /\ seq_d' = 1
    /\ e_frame' = 0
    /\ sub_seq' = <<>>
    /\ UNCHANGED <<sub_time_segmentation, seq_pc>>
    /\ UNCHANGED seqRest

\* the outer loop ends
ReturnSubSequences ==
    /\ seq_pc = "loop"
    /\ seq_i > Len(sub_time_segmentation)
    /\ seq_pc' = "done"
    /\ UNCHANGED <<sub_time_segmentation, sub_sequences, seq_i, seq_d, e_frame, sub_seq>>
    /\ UNCHANGED seqRest

NextSeq == RaiseValueError \/ ExpandSegment \/ AppendSubSequence \/ ReturnSubSequences

SpecSeq == InitSeq /\ [][NextSeq]_vars

\* ---- properties of __make_sub_sequences

\* segment[i+1].start_frame = segment[i].end_frame + 1 for every consecutive pair
Contiguous(durations) ==
    \A k \in 1..(Len(durations) - 1) :
        durations[k + 1]["start_frame"] = durations[k]["end_frame"] + 1

WellFormedDurations(durations) ==
    \A k \in DOMAIN durations : durations[k]["end_frame"] >= durations[k]["start_frame"]

RECURSIVE ExpectedSubSeq(_)
\* The labels in segment order, each repeated end_frame - start_frame + 1 times.
ExpectedSubSeq(durations) ==
    IF durations = <<>> THEN <<>>
    ELSE Repeat(Head(durations)["sub_activity"],
                Head(durations)["end_frame"] - Head(durations)["start_frame"] + 1)
         \o ExpectedSubSeq(Tail(durations))

\* C1: a video whose segment list has a gap or an overlap between two
\* consecutive segments never gets a per-frame label sequence: every video
\* for which a sub_seq was produced has a contiguous segment list.
C1_NonContiguousRaises ==
    \A k \in DOMAIN sub_sequences :
        Contiguous(sub_time_segmentation[k]["durations"])

\* C2: a video whose segment list is contiguous (end_frame >= start_frame
\* everywhere), whatever its first start_frame, is expanded without error
\* into the labels repeated duration_frames times, of length
\* end_frame of the last segment - start_frame of the first + 1.
C2_ContiguousExpands ==
    /\ seq_pc = "raised" =>
          ~(Contiguous(SeqDurations) /\ WellFormedDurations(SeqDurations))
    /\ \A k \in DOMAIN sub_sequences :
          LET ds == sub_time_segmentation[k]["durations"] IN
            (Contiguous(ds) /\ WellFormedDurations(ds)) =>
                /\ sub_sequences[k]["sub_seq"] = ExpectedSubSeq(ds)
                /\ Len(sub_sequences[k]["sub_seq"]) =
                       ds[Len(ds)]["end_frame"] - ds[1]["start_frame"] + 1

(***************************************************************************)
(* make_key / break_key                                                    *)
(***************************************************************************)
MaxStr == 2

Chars == {"a", "b", "_"}
Strings == SeqsOf(Chars, 0, MaxStr)

RECURSIVE Join(_, _)
\* sep.join(parts)
Join(parts, sep) ==
    IF parts = <<>> THEN <<>>
    ELSE IF Len(parts) = 1 THEN parts[1]
    ELSE parts[1] \o sep \o Join(Tail(parts), sep)

RECURSIVE SplitFrom(_, _, _)
\* The tokens of s after the token cur that is being read.
SplitFrom(s, c, cur) ==
    IF s = <<>> THEN <<cur>>
    ELSE IF Head(s) = c THEN <<cur>> \o SplitFrom(Tail(s), c, <<>>)
    ELSE SplitFrom(Tail(s), c, Append(cur, Head(s)))

\* s.split(c) for a one-character separator: "" gives [""].
Split(s, c) == SplitFrom(s, c, <<>>)

make_key(subject_name, super_name, video_name) ==
    Join(<<subject_name, super_name, video_name>>, <<"_">>)

\* A bug of break_key: the activity is taken to be the second token only.
break_key_second_token(k) ==
    LET s == Split(k, "_") IN
      <<s[1], IF Len(s) >= 2 THEN s[2] ELSE <<>>, s[Len(s)]>>

break_key(k) ==
    LET s == Split(k, "_") IN
      <<s[1], Join(SubSeq(s, 2, Len(s) - 1), <<"_">>), s[Len(s)]>>

InitKey ==
    /\ key_in \in Strings \X Strings \X Strings
    /\ key = None
    /\ key_out = None
    /\ key_pc = "start"
    /\ KeyRestIdle

MakeKey ==
    /\ key_pc = "start"
    /\ key' = make_key(key_in[1], key_in[2], key_in[3])
    /\ key_pc' = "made"
    /\ UNCHANGED <<key_in, key_out>>
    /\ UNCHANGED keyRest

BreakKey ==
    /\ key_pc = "made"
    /\ key_out' = break_key(key)
    /\ key_pc' = "broken"
    /\ UNCHANGED <<key_in, key>>
    /\ UNCHANGED keyRest

NextKey == MakeKey \/ BreakKey

SpecKey == InitKey /\ [][NextKey]_vars

NoDelimiter(s) == "_" \notin Range(s)

\* C3: when the subject id and the video id contain no '_', break_key of
\* make_key(subject, activity, video_id) is the triple (subject, activity,
\* video_id), whatever the number of '_' in the activity name.
C3_KeyRoundTrip ==
    (key_pc = "broken" /\ NoDelimiter(key_in[1]) /\ NoDelimiter(key_in[3]))
        => key_out = key_in

\* A key of an activity name with '_' has been made and broken.
C3_Witness ==
    /\ key_pc = "broken"
    /\ NoDelimiter(key_in[1])
    /\ NoDelimiter(key_in[3])
    /\ ~NoDelimiter(key_in[2])
    /\ key_in[1] # <<>>
    /\ key_out = key_in

(***************************************************************************)
(* get_objects_annotation_data                                             *)
(***************************************************************************)
MaxObjFrame == 3
MaxObjFiles == 2
MaxObjLines == 3

\* None as the value of a frame parameter, and a local that is not yet bound.
NoFrame == -1
Unbound == -2
\* No box: the object has no entry, or no non-zero box was seen.
NoBox == <<>>
ObjIds == {1, 2}
ZeroBox == <<0, 0, 0, 0>>
Boxes == {ZeroBox, <<10, 10, 20, 20>>, <<12, 10, 22, 20>>}
ObjErrors == {"KeyError", "UnboundLocalError"}

\* The well-formed lines (12 fields): frame, obj_id, minx, miny, maxx, maxy.
ObjLines == [frame : 1..MaxObjFrame, obj_id : ObjIds, box : Boxes]

\* line 409: obj_types.get(obj_id, 'unknown') + '_' + repr(obj_id)
ObjIdStr(types, obj_id) == <<types[obj_id], obj_id>>

\* lines 380-387: the types activityLabel.txt gives the objects of the video,
\* 'unknown' for an object it does not name.
ObjTypeMaps == {[o \in ObjIds |-> "unknown"],
                [o \in ObjIds |-> IF o = 1 THEN "cup" ELSE "unknown"]}

\* line 414
FirstFrame(frame, start) == IF start # NoFrame THEN (frame - start) + 1 ELSE 1

\* lines 417-419: last_pos_frame after the first-frame test
LastPosAfterFirstFrameTest(lpf, first_frame, box) ==
    IF first_frame = 1 /\ box = ZeroBox THEN 1 ELSE lpf

\* lines 411-412: frame_data with an entry for the frame
WithFrame(fd, frame) ==
    IF frame \in DOMAIN fd THEN fd
    ELSE [f \in DOMAIN fd \cup {frame} |-> IF f = frame THEN <<>> ELSE fd[f]]

\* frame_data[frame][k] = box
WithBox(fd, frame, k, box) ==
    [fd EXCEPT ![frame] =
        [o \in DOMAIN fd[frame] \cup {k} |-> IF o = k THEN box ELSE fd[frame][o]]]

\* Which branch of lines 417-433 a line that passed the filters takes.
ObjBranch(fd, lpf, types, start, line) ==
    LET lpf1 == LastPosAfterFirstFrameTest(lpf, FirstFrame(line.frame, start), line.box)
        k == ObjIdStr(types, line.obj_id)
    IN  IF line.box # ZeroBox THEN "record"
        ELSE IF lpf1 = Unbound THEN "UnboundLocalError"
        ELSE IF lpf1 # 1 THEN
            IF lpf1 \in DOMAIN fd /\ k \in DOMAIN fd[lpf1] THEN "carry" ELSE "KeyError"
        ELSE IF FirstFrame(line.frame, start) = 1 THEN "first" ELSE "pass"

\* lines 408-433 for one line that passed the filters.
ObjStep(fd, lpf, types, start, line) ==
    LET fd1 == WithFrame(fd, line.frame)
        lpf1 == LastPosAfterFirstFrameTest(lpf, FirstFrame(line.frame, start), line.box)
        k == ObjIdStr(types, line.obj_id)
        b == ObjBranch(fd, lpf, types, start, line)
    IN  IF b = "record" THEN
            [frame_data |-> WithBox(fd1, line.frame, k, line.box),
             last_pos_frame |-> line.frame, pc |-> "read"]
        ELSE IF b = "carry" THEN
            [frame_data |-> WithBox(fd1, line.frame, k, fd1[lpf1][k]),
             last_pos_frame |-> lpf1, pc |-> "read"]
        ELSE IF b \in ObjErrors THEN
            [frame_data |-> fd1, last_pos_frame |-> lpf1, pc |-> b]
        ELSE [frame_data |-> fd1, last_pos_frame |-> lpf1, pc |-> "read"]

\* A call of get_objects_annotation_data after activityLabel.txt was read
\* (lines 373-387), about to list the directory.
InitObj ==
    /\ obj_start_frame \in {NoFrame} \cup (1..MaxObjFrame)
    /\ obj_end_frame \in {NoFrame} \cup (1..MaxObjFrame)
    /\ obj_types \in ObjTypeMaps
    /\ frame_data = <<>>
    /\ last_pos_frame = Unbound
    /\ obj_file = 1
    /\ obj_nfiles \in 1..MaxObjFiles
    /\ obj_nlines = 0
    /\ obj_prev_frame = 0
    /\ obj_line = <<>>
    /\ obj_nonzero = [o \in ObjIds |-> NoBox]
    /\ obj_last = "none"
    /\ obj_pc = "read"
    /\ ObjRestIdle

ObjReading == obj_pc = "read" /\ obj_file <= obj_nfiles
ObjCanRead == ObjReading /\ obj_nlines < MaxObjLines

\* The file is left: the for loop of line 393 ends or breaks, line 435.
ObjCloseFile(got) ==
    /\ obj_last' = got
    /\ obj_file' = obj_file + 1
    /\ obj_nlines' = 0
    /\ obj_prev_frame' = 0
    /\ obj_line' = <<>>
    /\ UNCHANGED <<obj_start_frame, obj_end_frame, obj_types, frame_data, last_pos_frame,
                   obj_nfiles, obj_nonzero, obj_pc>>
    /\ UNCHANGED objRest

\* The line is left without effect (continue).
ObjSkipLine(frame, got) ==
    /\ obj_last' = got
    /\ obj_nlines' = obj_nlines + 1
    /\ obj_prev_frame' = frame
    /\ obj_line' = <<>>
    /\ UNCHANGED <<obj_start_frame, obj_end_frame, obj_types, frame_data, last_pos_frame,
                   obj_file, obj_nfiles, obj_nonzero, obj_pc>>
    /\ UNCHANGED objRest

\* the file has no more lines
EndOfObjFile == ObjReading /\ ObjCloseFile("eof")

\* lines 394-395: an empty line ends the reading of the file
BreakAtEmptyLine == ObjCanRead /\ ObjCloseFile("empty")

\* lines 398-399: a line that does not have 12 fields
SkipMalformedLine == ObjCanRead /\ ObjSkipLine(obj_prev_frame, "malformed")

\* lines 403-404
SkipBeforeStartFrame ==
    /\ ObjCanRead
    /\ \E line \in ObjLines :
        /\ line.frame >= obj_prev_frame
        /\ obj_start_frame # NoFrame /\ line.frame < obj_start_frame
        /\ ObjSkipLine(line.frame, "line")

\* lines 405-406
BreakAfterEndFrame ==
    /\ ObjCanRead
    /\ \E line \in ObjLines :
        /\ line.frame >= obj_prev_frame
        /\ ~(obj_start_frame # NoFrame /\ line.frame < obj_start_frame)
        /\ obj_end_frame # NoFrame /\ line.frame > obj_end_frame
        /\ ObjCloseFile("line")

\* lines 408-433 for a line inside the frame range that takes the branch
ProcessObjLine(branch) ==
    /\ ObjCanRead
    /\ \E line \in ObjLines :
        /\ line.frame >= obj_prev_frame
        /\ ~(obj_start_frame # NoFrame /\ line.frame < obj_start_frame)
        /\ ~(obj_end_frame # NoFrame /\ line.frame > obj_end_frame)
        /\ ObjBranch(frame_data, last_pos_frame, obj_types, obj_start_frame, line) = branch
        /\ LET r == ObjStep(frame_data, last_pos_frame, obj_types, obj_start_frame, line) IN
             /\ frame_data' = r.frame_data
             /\ last_pos_frame' = r.last_pos_frame
             /\ obj_pc' = r.pc
        /\ obj_line' = <<line>>
        /\ obj_last' = "line"
        /\ obj_nonzero' = IF line.box # ZeroBox
                          THEN [obj_nonzero EXCEPT ![line.obj_id] = line.box]
                          ELSE obj_nonzero
        /\ obj_nlines' = obj_nlines + 1
        /\ obj_prev_frame' = line.frame
    /\ UNCHANGED <<obj_start_frame, obj_end_frame, obj_types, obj_file, obj_nfiles>>
    /\ UNCHANGED objRest

\* lines 422-424
RecordDetection == ProcessObjLine("record")
\* lines 417-419 and 432-433: an all-zero box at the first frame
OccludedAtFirstFrame == ProcessObjLine("first")
\* lines 428-429
CarryLastPosition == ProcessObjLine("carry")
\* lines 432-433: an all-zero box while last_pos_frame is 1
OccludedWithoutPosition == ProcessObjLine("pass")
\* line 428 reads last_pos_frame before any assignment
RaiseUnboundLocalError == ProcessObjLine("UnboundLocalError")
\* line 429 looks up an entry that does not exist
RaiseKeyError == ProcessObjLine("KeyError")

\* line 436
ReturnFrameData ==
    /\ obj_pc = "read"
    /\ obj_file > obj_nfiles
    /\ obj_pc' = "done"
    /\ obj_line' = <<>>
    /\ obj_last' = "none"
    /\ UNCHANGED <<obj_start_frame, obj_end_frame, obj_types, frame_data, last_pos_frame,
                   obj_file, obj_nfiles, obj_nlines, obj_prev_frame, obj_nonzero>>
    /\ UNCHANGED objRest

NextObj ==
    \/ EndOfObjFile
    \/ BreakAtEmptyLine
    \/ SkipMalformedLine
    \/ SkipBeforeStartFrame
    \/ BreakAfterEndFrame
    \/ RecordDetection
    \/ OccludedAtFirstFrame
    \/ CarryLastPosition
    \/ OccludedWithoutPosition
    \/ RaiseUnboundLocalError
    \/ RaiseKeyError
    \/ ReturnFrameData

SpecObj == InitObj /\ [][NextObj]_vars

\* ---- properties of get_objects_annotation_data

\* The line processed last reported an all-zero box.
ObjOccludedLine == obj_line # <<>> /\ obj_line[1].box = ZeroBox

\* The entry of frame_data for the object of the line processed last, or NoBox.
ObjEntry ==
    LET k == ObjIdStr(obj_types, obj_line[1].obj_id)
        f == obj_line[1].frame
    IN  IF f \in DOMAIN frame_data /\ k \in DOMAIN frame_data[f]
        THEN frame_data[f][k]
        ELSE NoBox

\* C4: when a processed line reports the all-zero box and an earlier
\* processed line of the same object reported a non-zero box, the entry of
\* the object at the frame of the line is the object's most recent non-zero
\* box.
C4_OccludedKeepsLastBox ==
    (ObjOccludedLine /\ obj_nonzero[obj_line[1].obj_id] # NoBox)
        => ObjEntry = obj_nonzero[obj_line[1].obj_id]

\* C5: when a processed line reports the all-zero box and no earlier
\* processed line of the same object reported a non-zero box, frame_data has
\* no entry for the object at that frame and the reading goes on.
C5_OccludedUnseenIsAbsent ==
    (ObjOccludedLine /\ obj_nonzero[obj_line[1].obj_id] = NoBox)
        => (ObjEntry = NoBox /\ obj_pc \notin ObjErrors)

\* C13: a line that does not have 12 fields, an empty line included, is
\* skipped without an error: the result is left as it is and the reading of
\* the file goes on, so that the lines that follow it are still read.
C13_MalformedLineIsSkipped ==
    [][obj_last' \in {"empty", "malformed"} =>
          (obj_pc' = "read" /\ frame_data' = frame_data /\ obj_file' = obj_file)]_vars

\* C16: for well-formed lines with non-decreasing frames in every file, and
\* any start_frame and end_frame, the call never fails: last_pos_frame is
\* not read before it is set and no missing entry is looked up.
C16_RunsToCompletion == obj_pc \notin ObjErrors

(***************************************************************************)
(* __init__ (lines 82-90) and __read_sub_times                             *)
(***************************************************************************)
MaxLabelLines == 3

\* subjects_names_all and super_names, cut down to two subjects and one
\* activity (whose name contains the delimiter of the keys)
subjects_names_all == << <<"S", "1">>, <<"S", "3">> >>
super_names == << <<"a", "_", "b">> >>
VideoIds == { <<"1">>, <<"2">> }

\* The lines of a labeling.txt after lines 257-268:
\* <<video_id, start_frame, end_frame, sub_activity_name>>.
LabelLines == { << <<"1">>, 1, 2, "reaching" >>,
                << <<"1">>, 3, 3, "moving" >>,
                << <<"2">>, 1, 1, "moving" >> }

LabelFiles == {[exists |-> FALSE, lines |-> <<>>]}
                \cup {[exists |-> TRUE, lines |-> ls] : ls \in SeqsOf(LabelLines, 0, MaxLabelLines)}

Pairs == {<<subjects_names_all[i], super_names[j]>> :
              i \in DOMAIN subjects_names_all, j \in DOMAIN super_names}

\* The episodes given to the reader: None, or the key of a video.
Episodes == {<<>>} \cup {make_key(subjects_names_all[1], super_names[1], v) : v \in VideoIds}

\* `if self.episode:` of Python
Truthy(str) == str # <<>>

\* lines 270-276: the videos of a pair, in the order of their first line;
\* each is <<video_id, durations>>.
RECURSIVE AppendSegment(_, _, _)
AppendSegment(videos, video_id, d2) ==
    IF videos = <<>> THEN << <<video_id, <<d2>> >> >>
    ELSE IF Head(videos)[1] = video_id
         THEN << <<video_id, Append(Head(videos)[2], d2)>> >> \o Tail(videos)
         ELSE <<Head(videos)>> \o AppendSegment(Tail(videos), video_id, d2)

\* lines 265-271: the record d2 of a line
LineSegment(line) == Segment(line[4], line[2], line[3])

\* lines 262-264: the line ends the reading of the file
LineBreaks(ep, active_videos, line) ==
    Truthy(ep) /\ line[1] \notin Range(active_videos)

\* A bug: the IOError is not caught.
AfterIOError_propagates == "IOError"

\* lines 277-278: where the loop goes after the IOError of a file that
\* cannot be opened ("open": the next pair)
AfterIOError == "open"

InitTimes ==
    /\ episode \in Episodes
    /\ subject_names_active = <<>>
    /\ super_names_active = <<>>
    /\ video_names_active = <<>>
    /\ label_files \in [Pairs -> LabelFiles]
    /\ times_dict = <<>>
    /\ times_s = 1
    /\ times_a = 1
    /\ times_l = 1
    /\ times_pc = "init"
    /\ sub_time_segmentation = <<>>
    /\ sub_sequences = <<>> /\ seq_pc = "done" /\ seq_i = 1 /\ seq_d = 1
    /\ e_frame = 0 /\ sub_seq = <<>>
    /\ KeyIdle /\ ObjIdle /\ SkelIdle /\ CacheIdle /\ TraceIdle

\* lines 82-90
SelectActive ==
    /\ times_pc = "init"
    /\ IF Truthy(episode)
       THEN LET k == break_key(episode) IN
              /\ subject_names_active' = <<k[1]>>
              /\ super_names_active' = <<k[2]>>
              /\ video_names_active' = <<k[3]>>
       ELSE /\ subject_names_active' = subjects_names_all
            /\ super_names_active' = super_names
            /\ video_names_active' = <<>>
    /\ times_pc' = "open"
    /\ UNCHANGED <<episode, label_files, times_dict, times_s, times_a, times_l,
                   sub_time_segmentation>>
    /\ UNCHANGED timesRest

TimesPair == <<subject_names_active[times_s], super_names_active[times_a]>>
TimesInPair == times_s <= Len(subject_names_active)

\* The loops of lines 247 and 250 move to the next pair.
TimesNextPair ==
    IF times_a < Len(super_names_active)
    THEN times_a' = times_a + 1 /\ times_s' = times_s
    ELSE times_a' = 1 /\ times_s' = times_s + 1

\* times_dict with an empty dict for the pair (lines 249 and 253)
WithPair(d, pair) ==
    [q \in DOMAIN d \cup {pair} |-> IF q = pair THEN <<>> ELSE d[q]]

\* lines 252-255: the file of the pair is opened
OpenLabelFile ==
    /\ times_pc = "open"
    /\ TimesInPair
    /\ label_files[TimesPair].exists
    /\ times_dict' = WithPair(times_dict, TimesPair)
    /\ times_l' = 1
    /\ times_pc' = "lines"
    /\ UNCHANGED <<episode, subject_names_active, super_names_active, video_names_active,
                   label_files, times_s, times_a, sub_time_segmentation>>
    /\ UNCHANGED timesRest

\* lines 252-255 and 277-278: the file cannot be opened
LabelFileNotFound ==
    /\ times_pc = "open"
    /\ TimesInPair
    /\ ~label_files[TimesPair].exists
    /\ times_dict' = WithPair(times_dict, TimesPair)
    /\ times_pc' = AfterIOError
    /\ TimesNextPair
    /\ UNCHANGED <<episode, subject_names_active, super_names_active, video_names_active,
                   label_files, times_l, sub_time_segmentation>>
    /\ UNCHANGED timesRest

TimesLine == label_files[TimesPair].lines[times_l]
TimesAtLine == times_pc = "lines" /\ times_l <= Len(label_files[TimesPair].lines)

\* lines 257-276
ReadLabelLine ==
    /\ TimesAtLine
    /\ ~LineBreaks(episode, video_names_active, TimesLine)
    /\ times_dict' = [times_dict EXCEPT ![TimesPair] =
                         AppendSegment(@, TimesLine[1], LineSegment(TimesLine))]
    /\ times_l' = times_l + 1
    /\ UNCHANGED <<episode, subject_names_active, super_names_active, video_names_active,
                   label_files, times_s, times_a, times_pc, sub_time_segmentation>>
    /\ UNCHANGED timesRest

\* lines 262-264
BreakAtOtherVideo ==
    /\ TimesAtLine
    /\ LineBreaks(episode, video_names_active, TimesLine)
    /\ times_pc' = "open"
    /\ TimesNextPair
    /\ UNCHANGED <<episode, subject_names_active, super_names_active, video_names_active,
                   label_files, times_dict, times_l, sub_time_segmentation>>
    /\ UNCHANGED timesRest

\* the for loop of line 256 ends
EndOfLabelFile ==
    /\ times_pc = "lines"
    /\ times_l > Len(label_files[TimesPair].lines)
    /\ times_pc' = "open"
    /\ TimesNextPair
    /\ UNCHANGED <<episode, subject_names_active, super_names_active, video_names_active,
                   label_files, times_dict, times_l, sub_time_segmentation>>
    /\ UNCHANGED timesRest

\* The entries of one pair of line 285.
PairEntries(pair, videos) ==
    [k \in DOMAIN videos |->
        [subject_name |-> pair[1], super_name |-> pair[2],
         video_name |-> videos[k][1], durations |-> videos[k][2]]]

RECURSIVE FlattenFrom(_, _, _, _)
\* lines 281-286 from the pair (s, a) on, the pairs taken in the order of
\* the active lists, the videos in the order of their first line.
FlattenFrom(d, subjects, supers, n) ==
    IF n > Len(subjects) * Len(supers) THEN <<>>
    ELSE LET pair == <<subjects[((n - 1) \div Len(supers)) + 1],
                       supers[((n - 1) % Len(supers)) + 1]>>
         IN  (IF pair \in DOMAIN d THEN PairEntries(pair, d[pair]) ELSE <<>>)
             \o FlattenFrom(d, subjects, supers, n + 1)

\* lines 281-286
FlattenSubTimes ==
    /\ times_pc = "open"
    /\ ~TimesInPair
    /\ sub_time_segmentation' =
           FlattenFrom(times_dict, subject_names_active, super_names_active, 1)
    /\ times_pc' = "done"
    /\ UNCHANGED <<episode, subject_names_active, super_names_active, video_names_active,
                   label_files, times_dict, times_s, times_a, times_l>>
    /\ UNCHANGED timesRest

NextTimes ==
    \/ SelectActive
    \/ OpenLabelFile
    \/ LabelFileNotFound
    \/ ReadLabelLine
    \/ BreakAtOtherVideo
    \/ EndOfLabelFile
    \/ FlattenSubTimes

SpecTimes == InitTimes /\ [][NextTimes]_vars

\* ---- properties of __read_sub_times

\* The segments of the lines of a video, in the order of the file.
RECURSIVE VideoSegments(_, _)
VideoSegments(lines, video_id) ==
    IF lines = <<>> THEN <<>>
    ELSE (IF Head(lines)[1] = video_id THEN <<LineSegment(Head(lines))>> ELSE <<>>)
         \o VideoSegments(Tail(lines), video_id)

\* The durations self.sub_time_segmentation holds for a video: a set, empty
\* when the video has no entry.
ProducedDurations(pair, video_id) ==
    {sub_time_segmentation[k]["durations"] :
        k \in {j \in DOMAIN sub_time_segmentation :
                  /\ sub_time_segmentation[j]["subject_name"] = pair[1]
                  /\ sub_time_segmentation[j]["super_name"] = pair[2]
                  /\ sub_time_segmentation[j]["video_name"] = video_id}}

\* What reading the file of a pair to the end gives for a video.
ExpectedDurations(pair, video_id) ==
    LET segs == VideoSegments(label_files[pair].lines, video_id) IN
      IF segs = <<>> THEN {} ELSE {segs}

ActivePairs ==
    {<<subject_names_active[i], super_names_active[j]>> :
        i \in DOMAIN subject_names_active, j \in DOMAIN super_names_active}

\* C8: a label file that cannot be opened raises no error; its pair
\* contributes no segments and, without a video filter, every other active
\* pair, before or after it, has the segments of its file.
C8_MissingFileIsSkipped ==
    /\ times_pc # "IOError"
    /\ times_pc = "done" =>
          \A pair \in ActivePairs :
              IF ~label_files[pair].exists
              THEN \A v \in VideoIds : ProducedDurations(pair, v) = {}
              ELSE ~Truthy(episode) =>
                      \A v \in VideoIds :
                          ProducedDurations(pair, v) = ExpectedDurations(pair, v)

\* __read_sub_times has returned; the file of the first pair is missing and
\* the second pair has its segments, or the other way round.
C8_Witness ==
    /\ times_pc = "done"
    /\ ~Truthy(episode)
    /\ \E p, q \in ActivePairs :
          /\ ~label_files[p].exists
          /\ label_files[q].exists
          /\ \E v \in VideoIds :
                /\ ProducedDurations(q, v) # {}
                /\ ProducedDurations(q, v) = ExpectedDurations(q, v)
          /\ \A v \in VideoIds : ProducedDurations(p, v) = {}

\* C9: with an episode, the segments produced for its video are those of
\* all the lines of the video in the label file, wherever they are.
C9_EpisodeEqualsFullRead ==
    (times_pc = "done" /\ Truthy(episode)) =>
        \A pair \in ActivePairs :
            label_files[pair].exists =>
                ProducedDurations(pair, video_names_active[1])
                    = ExpectedDurations(pair, video_names_active[1])

(***************************************************************************)
(* parse_skeleton_data                                                     *)
(***************************************************************************)
MaxSkelFrame == 2
MaxSkelLines == 2

TOTAL_JOINTS == 15

\* joints_enum of lines 457-472
joints_enum == <<"H", "N", "T", "LS", "LE", "RS", "RE", "LHIP", "LK", "RHIP", "RK",
                 "LH", "RH", "LF", "RF">>
JointNames == Range(joints_enum)

\* joints_dict of lines 474-489
joints_dict == [j \in JointNames |-> CHOOSE i \in DOMAIN joints_enum : joints_enum[i] = j]

\* ---- decimal numbers with 15 fractional digits: <<integer part, three
\* ---- groups of 5 fractional digits>>; the value is the sum of the parts,
\* ---- and in a normal form the three groups are in 0..Base-1.
Base == 100000

Carry(v) == v \div Base
Digit(v) == v % Base

Normalize(v) ==
    LET c4 == Carry(v[4])
        c3 == Carry(v[3] + c4)
        c2 == Carry(v[2] + c3)
    IN  <<v[1] + c2, Digit(v[2] + c3), Digit(v[3] + c4), Digit(v[4])>>

\* k * n for an integer n, and -k: the groups are not brought back to normal
\* form
Times(k, n) == <<k[1] * n, k[2] * n, k[3] * n, k[4] * n>>
Neg(k) == <<-k[1], -k[2], -k[3], -k[4]>>

\* a + b + c + d in normal form
Sum(a, b, c, d) ==
    Normalize(<<a[1] + b[1] + c[1] + d[1], a[2] + b[2] + c[2] + d[2],
                a[3] + b[3] + c[3] + d[3], a[4] + b[4] + c[4] + d[4]>>)

\* int(round(v)) of Python 2: to the nearest integer, halves away from zero
Round(v) ==
    LET half == v[2] = 50000 /\ v[3] = 0 /\ v[4] = 0 IN
      IF v[1] >= 0
      THEN IF v[2] >= 50000 THEN v[1] + 1 ELSE v[1]
      ELSE IF v[2] >= 50000 /\ ~half THEN v[1] + 1 ELSE v[1]

\* The literals of lines 525-526.
XOffsetHalf == <<156, 85844, 56124, 92800>>    \* 156.8584456124928
XThirdX == <<0, 9768, 62095, 24800>>           \* 0.0976862095248
XThirdY == <<0, 64, 44357, 10400>>             \* 0.0006444357104
XThirdZ == <<0, 157, 15946, 68200>>            \* 0.0015715946682
YOffsetHalf == <<125, 53572, 1011, 43100>>     \* 125.5357201011431
YThirdX == <<0, 21, 53447, 76600>>             \* 0.0002153447766
YThirdY == <<0, 11848, 74093, 53000>>          \* 0.1184874093530
YThirdZ == <<0, 221, 34485, 95700>>            \* 0.0022134485957

\* The formula of lines 528-529 ("from sandeep, these do not work").
Project2D_sandeep(p) ==
    << Round(Sum(XOffsetHalf, Times(Times(XThirdX, p[1]), 2),
                 Neg(Times(Times(XThirdY, p[2]), 3)), Times(XThirdZ, p[3]))),
       Round(Sum(YOffsetHalf, Times(YThirdX, p[1]),
                 Neg(Times(YThirdY, p[2])), Neg(Times(YThirdZ, p[3])))) >>

\* lines 525-526: (x_2D, y_2D) of the position p = (x, y, z)
Project2D(p) ==
    << Round(Sum(Times(XOffsetHalf, 2), Times(Times(XThirdX, 3), p[1]),
                 Neg(Times(Times(XThirdY, 3), p[2])), Times(Times(XThirdZ, 3), p[3]))),
       Round(Sum(Times(YOffsetHalf, 2), Times(Times(YThirdX, 3), p[1]),
                 Neg(Times(Times(YThirdY, 3), p[2])),
                 Neg(Times(Times(YThirdZ, 3), p[3])))) >>

\* A bug: the orientation is skipped for the first 10 joints only.
OrientationFields_first_ten(i) == IF i <= 10 THEN 10 ELSE 0

\* lines 516-518: the fields skipped before the position of joint i
OrientationFields(i) == IF i <= 11 THEN 10 ELSE 0

\* line 532: the fields of the position and of its confidence
PositionFields == 4

\* ---- the file
SkelCoords == {-1200, 0, 900}

\* The frames of the lines of a file, increasing.
SkelFrameLists ==
    {fs \in SeqsOf(1..MaxSkelFrame, 1, MaxSkelLines) :
        \A k \in 1..(Len(fs) - 1) : fs[k] < fs[k + 1]}

\* Field k of the line of a frame (line 501): field 0 is the frame, the
\* others are numbers that differ from field to field.
SkelField(seed, frame, k) ==
    IF k = 0 THEN frame
    ELSE seed[(k % 3) + 1] + (IF k % 2 = 0 THEN 5 * k ELSE -(3 * k)) + frame

InitSkel ==
    /\ skel_seed \in SkelCoords \X SkelCoords \X SkelCoords
    /\ skel_frames \in SkelFrameLists
    /\ skel_start_frame \in {NoFrame} \cup (1..MaxSkelFrame)
    /\ skel_end_frame \in {NoFrame} \cup (1..MaxSkelFrame)
    /\ skel_l = 1
    /\ skel_i = 1
    /\ position = 1
    /\ joints3D = <<>>
    /\ joints2D = <<>>
    /\ skel_pc = "line"
    /\ SkelRestIdle

SkelAtLine == skel_pc = "line" /\ skel_l <= Len(skel_frames)
SkelFrame == skel_frames[skel_l]

\* lines 504-505
SkipSkeletonLine ==
    /\ SkelAtLine
    /\ skel_start_frame # NoFrame /\ SkelFrame < skel_start_frame
    /\ skel_l' = skel_l + 1
    /\ UNCHANGED <<skel_seed, skel_frames, skel_start_frame, skel_end_frame, skel_i,
                   position, joints3D, joints2D, skel_pc>>
    /\ UNCHANGED skelRest

\* lines 506-507, 533-534
BreakAfterSkeletonEnd ==
    /\ SkelAtLine
    /\ ~(skel_start_frame # NoFrame /\ SkelFrame < skel_start_frame)
    /\ skel_end_frame # NoFrame /\ SkelFrame > skel_end_frame
    /\ skel_pc' = "done"
    /\ UNCHANGED <<skel_seed, skel_frames, skel_start_frame, skel_end_frame, skel_l, skel_i,
                   position, joints3D, joints2D>>
    /\ UNCHANGED skelRest

\* attrdict(joints_dict) of lines 509-510: every joint name with its number
\* (kept in a 1-tuple)
JointNumbers == [j \in JointNames |-> <<joints_dict[j]>>]

WithJoints(js, frame, d) ==
    [f \in DOMAIN js \cup {frame} |-> IF f = frame THEN d ELSE js[f]]

\* lines 509-511
StartSkeletonLine ==
    /\ SkelAtLine
    /\ ~(skel_start_frame # NoFrame /\ SkelFrame < skel_start_frame)
    /\ ~(skel_end_frame # NoFrame /\ SkelFrame > skel_end_frame)
    /\ joints3D' = WithJoints(joints3D, SkelFrame, JointNumbers)
    /\ joints2D' = WithJoints(joints2D, SkelFrame, JointNumbers)
    /\ position' = 1
    /\ skel_i' = 1
    /\ skel_pc' = "joints"
    /\ UNCHANGED <<skel_seed, skel_frames, skel_start_frame, skel_end_frame, skel_l>>
    /\ UNCHANGED skelRest

\* lines 513-532 for joint i
ReadJoint ==
    /\ skel_pc = "joints"
    /\ skel_i <= TOTAL_JOINTS
    /\ LET at == position + OrientationFields(skel_i)
           p == <<SkelField(skel_seed, SkelFrame, at),
                  SkelField(skel_seed, SkelFrame, at + 1),
                  SkelField(skel_seed, SkelFrame, at + 2)>>
       IN  /\ joints3D' = [joints3D EXCEPT ![SkelFrame][joints_enum[skel_i]] = p]
           /\ joints2D' = [joints2D EXCEPT ![SkelFrame][joints_enum[skel_i]] = Project2D(p)]
           /\ position' = at + PositionFields
    /\ skel_i' = skel_i + 1
    /\ UNCHANGED <<skel_seed, skel_frames, skel_start_frame, skel_end_frame, skel_l, skel_pc>>
    /\ UNCHANGED skelRest

\* the loop of line 512 ends: the next line
EndOfSkeletonLine ==
    /\ skel_pc = "joints"
    /\ skel_i > TOTAL_JOINTS
    /\ skel_l' = skel_l + 1
    /\ skel_pc' = "line"
    /\ UNCHANGED <<skel_seed, skel_frames, skel_start_frame, skel_end_frame, skel_i,
                   position, joints3D, joints2D>>
    /\ UNCHANGED skelRest

\* lines 497-498, 533-534: the END line, or the end of the file
ReturnJoints ==
    /\ skel_pc = "line"
    /\ skel_l > Len(skel_frames)
    /\ skel_pc' = "done"
    /\ UNCHANGED <<skel_seed, skel_frames, skel_start_frame, skel_end_frame, skel_l, skel_i,
                   position, joints3D, joints2D>>
    /\ UNCHANGED skelRest

NextSkel ==
    \/ SkipSkeletonLine
    \/ BreakAfterSkeletonEnd
    \/ StartSkeletonLine
    \/ ReadJoint
    \/ EndOfSkeletonLine
    \/ ReturnJoints

SpecSkel == InitSkel /\ [][NextSkel]_vars

\* ---- properties of parse_skeleton_data

\* The constants of the projection as the specification gives them.
SpecX0 == <<313, 71689, 12249, 85600>>         \* 313.7168912249856
SpecXX == <<0, 29305, 86285, 74400>>           \* 0.2930586285744
SpecXY == <<0, 193, 33071, 31200>>             \* 0.0019333071312
SpecXZ == <<0, 471, 47840, 4600>>              \* 0.0047147840046
SpecY0 == <<251, 7144, 2022, 86200>>           \* 251.0714402022862
SpecYX == <<0, 64, 60343, 29800>>              \* 0.0006460343298
SpecYY == <<0, 35546, 22280, 59000>>           \* 0.3554622280590
SpecYZ == <<0, 664, 3457, 87100>>              \* 0.0066403457871

SpecProjection(p) ==
    << Round(Sum(SpecX0, Times(SpecXX, p[1]), Neg(Times(SpecXY, p[2])),
                 Times(SpecXZ, p[3]))),
       Round(Sum(SpecY0, Times(SpecYX, p[1]), Neg(Times(SpecYY, p[2])),
                 Neg(Times(SpecYZ, p[3])))) >>

\* The joints of the frame that the loop of line 512 has read.
JointsRead(frame) ==
    {j \in JointNames : Len(joints2D[frame][j]) = 2}

\* C7: for every joint read, the 2D output is the rounded affine formula of
\* the specification applied to the joint's 3D position, and nothing else.
C7_ProjectionFormula ==
    \A f \in DOMAIN joints2D :
        \A j \in JointsRead(f) :
            joints2D[f][j] = SpecProjection(joints3D[f][j])

\* A whole file was parsed and a joint with a negative coordinate got its
\* projection.
C7_Witness ==
    /\ skel_pc = "done"
    /\ \E f \in DOMAIN joints2D :
          /\ JointsRead(f) = JointNames
          /\ \E j \in JointNames :
                /\ joints3D[f][j][2] < 0
                /\ joints3D[f][j][1] > 0
                /\ joints2D[f][j] = SpecProjection(joints3D[f][j])

\* The joint whose entry a step of the loop of line 512 writes.
JointWritten(j) == joints2D'[SkelFrame][j] # joints2D[SkelFrame][j]

\* The order of the joints the specification gives.
SpecJointOrder == <<"H", "N", "T", "LS", "LE", "RS", "RE", "LHIP", "LK", "RHIP", "RK",
                    "LH", "RH", "LF", "RF">>

\* C10 as stated: the joints are walked in the order H .. RF and the cursor
\* advances by 10 fields for each of the first 11 joints and by 4 for each
\* of the last 4.
C10_TenFieldsPerJoint ==
    [][skel_i' = skel_i + 1 =>
          /\ \A j \in JointNames : JointWritten(j) => j = SpecJointOrder[skel_i]
          /\ position' - position = (IF skel_i <= 11 THEN 10 ELSE 4)]_vars

\* C10 amended: the joints are walked in the order H .. RF and the cursor
\* advances by 14 fields for each of the first 11 joints (10 orientation
\* fields, then the position and its confidence) and by 4 for each of the
\* last 4.
C10_FourteenFieldsPerJoint ==
    [][skel_i' = skel_i + 1 =>
          /\ \A j \in JointNames : JointWritten(j) => j = SpecJointOrder[skel_i]
          /\ position' - position = (IF skel_i <= 11 THEN 14 ELSE 4)]_vars

\* The 15 joints of a line were read and the cursor is behind field 170.
C10_Witness ==
    /\ skel_pc = "joints"
    /\ skel_i = TOTAL_JOINTS + 1
    /\ position = 1 + 11 * 14 + 4 * 4
    /\ JointsRead(SkelFrame) = JointNames

(***************************************************************************)
(* The functions as wholes: what a call returns, from the steps above      *)
(***************************************************************************)

\* lines 82-90: the active subjects, activities and videos of an episode
ActiveNames(ep) ==
    IF Truthy(ep)
    THEN LET k == break_key(ep) IN
           [subjects |-> <<k[1]>>, supers |-> <<k[2]>>, videos |-> <<k[3]>>]
    ELSE [subjects |-> subjects_names_all, supers |-> super_names, videos |-> <<>>]

RECURSIVE ReadLabelLines(_, _, _, _)
\* lines 256-276: the videos of a file whose lines are read from the first
ReadLabelLines(lines, ep, active_videos, videos) ==
    IF lines = <<>> THEN videos
    ELSE IF LineBreaks(ep, active_videos, Head(lines)) THEN videos
    ELSE ReadLabelLines(Tail(lines), ep, active_videos,
                        AppendSegment(videos, Head(lines)[1], LineSegment(Head(lines))))

\* lines 246-286: self.sub_time_segmentation after __read_sub_times
ReadSubTimes(files, ep) ==
    LET act == ActiveNames(ep)
        pairs == {<<act.subjects[i], act.supers[j]>> :
                     i \in DOMAIN act.subjects, j \in DOMAIN act.supers}
        d == [pair \in pairs |->
                 IF files[pair].exists
                 THEN ReadLabelLines(files[pair].lines, ep, act.videos, <<>>)
                 ELSE <<>>]
    IN  FlattenFrom(d, act.subjects, act.supers, 1)

RECURSIVE ExpandDurations(_, _, _)
\* lines 184-188: sub_seq of a video, or the ValueError of line 186
ExpandDurations(durations, e, acc) ==
    IF durations = <<>> THEN [raised |-> FALSE, sub_seq |-> acc]
    ELSE IF SegmentRejected(Head(durations), e) THEN [raised |-> TRUE, sub_seq |-> acc]
    ELSE ExpandDurations(Tail(durations), Head(durations)["end_frame"],
                         acc \o Repeat(Head(durations)["sub_activity"],
                                       Head(durations)["duration_frames"]))

RECURSIVE MakeSubSequencesFrom(_, _)
MakeSubSequencesFrom(sts, acc) ==
    IF sts = <<>> THEN [raised |-> FALSE, sub_sequences |-> acc]
    ELSE LET i == Head(sts)
             r == ExpandDurations(i["durations"], 0, <<>>)
         IN  IF r.raised THEN [raised |-> TRUE, sub_sequences |-> acc]
             ELSE MakeSubSequencesFrom(Tail(sts),
                      Append(acc, [subject_name |-> i["subject_name"],
                                   super_name |-> i["super_name"],
                                   video_name |-> i["video_name"],
                                   sub_seq |-> r.sub_seq]))

\* lines 179-191: self.sub_sequences after __make_sub_sequences, or raised
MakeSubSequences(sts) == MakeSubSequencesFrom(sts, <<>>)

RECURSIVE ReadObjLines(_, _, _, _, _)
\* lines 393-433 for the lines of one file; st is
\* [frame_data, last_pos_frame, pc]
ReadObjLines(lines, st, types, start, end) ==
    IF lines = <<>> \/ st.pc \in ObjErrors THEN st
    ELSE LET line == Head(lines) IN
           IF start # NoFrame /\ line.frame < start
           THEN ReadObjLines(Tail(lines), st, types, start, end)
           ELSE IF end # NoFrame /\ line.frame > end THEN st
           ELSE ReadObjLines(Tail(lines),
                             ObjStep(st.frame_data, st.last_pos_frame, types, start, line),
                             types, start, end)

RECURSIVE ReadObjFiles(_, _, _, _, _)
ReadObjFiles(files, st, types, start, end) ==
    IF files = <<>> \/ st.pc \in ObjErrors THEN st
    ELSE ReadObjFiles(Tail(files), ReadObjLines(Head(files), st, types, start, end),
                      types, start, end)

\* lines 372-436: [frame_data, last_pos_frame, pc] at the return or the error
GetObjectsAnnotationData(files, types, start, end) ==
    ReadObjFiles(files, [frame_data |-> <<>>, last_pos_frame |-> Unbound, pc |-> "read"],
                 types, start, end)

RECURSIVE CursorAt(_)
\* The value of position when the position fields of joint i are read.
CursorAt(i) ==
    IF i = 1 THEN 1 + OrientationFields(1)
    ELSE CursorAt(i - 1) + PositionFields + OrientationFields(i)

\* lines 512-532: the 2D joints of the line of a frame
LineJoints2D(seed, frame) ==
    [j \in JointNames |->
        LET at == CursorAt(joints_dict[j]) IN
          Project2D(<<SkelField(seed, frame, at), SkelField(seed, frame, at + 1),
                      SkelField(seed, frame, at + 2)>>)]

RECURSIVE SkeletonFramesRead(_, _, _)
\* lines 496-507: the frames of the lines that are parsed
SkeletonFramesRead(frames, start, end) ==
    IF frames = <<>> THEN {}
    ELSE IF start # NoFrame /\ Head(frames) < start
         THEN SkeletonFramesRead(Tail(frames), start, end)
    ELSE IF end # NoFrame /\ Head(frames) > end THEN {}
    ELSE {Head(frames)} \cup SkeletonFramesRead(Tail(frames), start, end)

\* lines 454-534: joints2D of a skeleton file
ParseSkeletonData(seed, frames, start, end) ==
    [f \in SkeletonFramesRead(frames, start, end) |-> LineJoints2D(seed, f)]

RECURSIVE Sorted(_)
\* sorted(keys) for a set of integers
Sorted(S) ==
    IF S = {} THEN <<>>
    ELSE LET m == CHOOSE x \in S : \A y \in S : x <= y IN <<m>> \o Sorted(S \ {m})

RECURSIVE InSomeOrder(_)
\* The keys of a dict in the order the iteration gives them (one fixed order).
InSomeOrder(S) ==
    IF S = {} THEN <<>>
    ELSE LET m == CHOOSE x \in S : TRUE IN <<m>> \o InSomeOrder(S \ {m})

\* lines 365-370, the floats in halves: <<2*xc, 2*yc, 2*w, 2*l>>
bbox_to_center_lw(bbox) ==
    LET w == bbox[3] - bbox[1]
        l == bbox[4] - bbox[2]
    IN  <<2 * bbox[1] + w, 2 * bbox[2] + l, 2 * w, 2 * l>>

\* No length and no width given to Object_State.
NoSize == -1

\* str(t) of lines 350 and 361 for a frame below 100: the decimal digits
Str(t) == IF t < 10 THEN <<t>> ELSE <<t \div 10, t % 10>>

\* The frame a timestamp was made from.
FrameOf(ts) == IF Len(ts) = 1 THEN ts[1] ELSE 10 * ts[1] + ts[2]

\* line 350: the Object_State of an object (x, y, width, length in halves)
ObjectState(object_name, t, bbox) ==
    LET c == bbox_to_center_lw(bbox) IN
      [name |-> object_name, timestamp |-> Str(t), x |-> c[1], y |-> c[2],
       length |-> c[4], width |-> c[3], category |-> "object"]

\* line 361: the Object_State of a joint
JointState(joint_name, t, coords) ==
    [name |-> <<joint_name, 0>>, timestamp |-> Str(t), x |-> 2 * coords[1], y |-> 2 * coords[2],
     length |-> NoSize, width |-> NoSize, category |-> "joint"]

RECURSIVE ObjectCallsOfFrame(_, _, _)
ObjectCallsOfFrame(t, d, names) ==
    IF names = <<>> THEN <<>>
    ELSE <<ObjectState(Head(names), t, d[Head(names)])>>
         \o ObjectCallsOfFrame(t, d, Tail(names))

RECURSIVE ObjectCalls(_, _)
\* lines 346-351: the states given to add_object_state_to_trace, in order
ObjectCalls(fd, ts) ==
    IF ts = <<>> THEN <<>>
    ELSE ObjectCallsOfFrame(Head(ts), fd[Head(ts)], InSomeOrder(DOMAIN fd[Head(ts)]))
         \o ObjectCalls(fd, Tail(ts))

\* A bug: every joint passes.
PassesFilter_every_joint(joint_name, pass_filter) == TRUE

\* line 358: joint_name in self.skeleton_pass_filter
PassesFilter(joint_name, pass_filter) == joint_name \in Range(pass_filter)

RECURSIVE JointCallsOfFrame(_, _, _, _)
JointCallsOfFrame(t, d, names, pass_filter) ==
    IF names = <<>> THEN <<>>
    ELSE (IF PassesFilter(Head(names), pass_filter)
          THEN <<JointState(Head(names), t, d[Head(names)])>> ELSE <<>>)
         \o JointCallsOfFrame(t, d, Tail(names), pass_filter)

RECURSIVE JointCalls(_, _, _)
\* lines 355-362: the states given to add_object_state_to_trace, in order
JointCalls(fd, ts, pass_filter) ==
    IF ts = <<>> THEN <<>>
    ELSE JointCallsOfFrame(Head(ts), fd[Head(ts)], InSomeOrder(DOMAIN fd[Head(ts)]),
                           pass_filter)
         \o JointCalls(fd, Tail(ts), pass_filter)

\* World_Trace.add_object_state_to_trace, call after call: a trace is
\* timestamp -> (name -> state), and the state of the last call for a
\* timestamp and a name is the one that is kept.
TraceOfCalls(calls) ==
    LET last(t, n) == CHOOSE i \in DOMAIN calls :
                          /\ calls[i].timestamp = t /\ calls[i].name = n
                          /\ \A j \in DOMAIN calls :
                                (calls[j].timestamp = t /\ calls[j].name = n) => j <= i
    IN  [t \in {calls[i].timestamp : i \in DOMAIN calls} |->
            [n \in {calls[i].name : i \in {j \in DOMAIN calls : calls[j].timestamp = t}} |->
                calls[last(t, n)]]]

\* The string "all", in characters; a filter is a list of joint names.
AllJoints == <<"a", "l", "l">>

\* lines 57-61: self.skeleton_pass_filter for the argument skeleton_pass_filter
SkeletonPassFilter(arg) ==
    IF arg = AllJoints
    THEN <<"H", "N", "T", "LS", "LE", "RS", "RE", "LHIP", "LK", "RHIP", "RK", "LH", "RH",
           "LF", "RF">>
    ELSE arg

\* line 24: the default of the argument
DefaultPassFilter == <<"H", "LH", "RH">>

\* ---- the operators above give what the steps give

AgreeTimes ==
    times_pc = "done" => sub_time_segmentation = ReadSubTimes(label_files, episode)

AgreeSeq ==
    /\ seq_pc = "done" =>
          /\ ~MakeSubSequences(sub_time_segmentation).raised
          /\ sub_sequences = MakeSubSequences(sub_time_segmentation).sub_sequences
    /\ seq_pc = "raised" => MakeSubSequences(sub_time_segmentation).raised

AgreeSkel ==
    skel_pc = "done" =>
        joints2D = ParseSkeletonData(skel_seed, skel_frames, skel_start_frame,
                                     skel_end_frame)

(***************************************************************************)
(* __init__ (lines 92-138), read_ground_truth_trajectories and save        *)
(***************************************************************************)
\* The paths of lines 46-48.
sub_sequences_filename == "cache/sub_sequences.pickle"
sub_time_segmentation_filename == "cache/sub_time_segmentation.pickle"
ground_truth_tracks_filename == "cache/ground_truth_tracks.pickle"

\* A bug: the segmentation is read from the file of the sequences.
SegmentationLoadPath_sequences == sub_sequences_filename

\* line 98: the file the time segmentation is loaded from
SegmentationLoadPath == sub_time_segmentation_filename

\* pickle.dump and pickle.load: the file holds the value
PickleDump(v) == [pickled |-> v]
PickleLoad(b) == b.pickled

\* open(filename, "wb") and the dump
WriteFile(d, filename, v) ==
    [f \in DOMAIN d \cup {filename} |-> IF f = filename THEN PickleDump(v) ELSE d[f]]

\* The labeling.txt files of the raw dataset: a missing file, the segments
\* of one video, of two videos, and segments that line 185 rejects.
CacheLabelFiles ==
    { [exists |-> FALSE, lines |-> <<>>],
      [exists |-> TRUE, lines |-> << << <<"1">>, 1, 2, "reaching" >>,
                                     << <<"1">>, 3, 3, "moving" >> >>],
      [exists |-> TRUE, lines |-> << << <<"1">>, 1, 2, "reaching" >>,
                                     << <<"2">>, 1, 1, "moving" >> >>],
      [exists |-> TRUE, lines |-> << << <<"2">>, 1, 1, "moving" >>,
                                     << <<"2">>, 1, 1, "moving" >> >>] }

\* The activity directories of the raw tracks: the video ids of
\* activityLabel.txt, the detection files and the skeleton file of a video
\* (the same for every video of the directory).
TracksDirs ==
    { [video_ids |-> << <<"1">> >>, types |-> [o \in ObjIds |-> "unknown"],
       obj_files |-> << << [frame |-> 1, obj_id |-> 1, box |-> <<10, 10, 20, 20>>],
                           [frame |-> 2, obj_id |-> 1, box |-> ZeroBox] >> >>,
       has_skeleton |-> TRUE, skel_seed |-> <<0, 900, -1200>>, skel_frames |-> <<1, 2>>],
      [video_ids |-> << <<"1">>, <<"2">> >>,
       types |-> [o \in ObjIds |-> IF o = 1 THEN "cup" ELSE "unknown"],
       obj_files |-> << << [frame |-> 1, obj_id |-> 1, box |-> ZeroBox],
                           [frame |-> 2, obj_id |-> 1, box |-> <<12, 10, 22, 20>>] >>,
                        << [frame |-> 2, obj_id |-> 2, box |-> <<10, 10, 20, 20>>] >> >>,
       has_skeleton |-> TRUE, skel_seed |-> <<900, 0, 0>>, skel_frames |-> <<2>>],
      [video_ids |-> << <<"2">> >>, types |-> [o \in ObjIds |-> "unknown"],
       obj_files |-> <<>>,
       has_skeleton |-> FALSE, skel_seed |-> <<0, 0, 0>>, skel_frames |-> <<>>] }

\* lines 321-333: the world trace of one video of a directory
VideoWorldTrace(dir, pass_filter) ==
    LET fd == GetObjectsAnnotationData(dir.obj_files, dir.types, NoFrame, NoFrame).frame_data
        j2d == ParseSkeletonData(dir.skel_seed, dir.skel_frames, NoFrame, NoFrame)
    IN  TraceOfCalls(ObjectCalls(fd, Sorted(DOMAIN fd))
                     \o JointCalls(j2d, Sorted(DOMAIN j2d), pass_filter))

\* lines 309-318: the video ids of a directory
VideoIdsOf(dir, ep) == IF Truthy(ep) THEN ActiveNames(ep).videos ELSE dir.video_ids

\* lines 302-343: self.world_traces, key -> trace
ReadGroundTruthTrajectories(dir, ep, pass_filter) ==
    LET act == ActiveNames(ep)
        keys == {make_key(act.subjects[i], act.supers[j], VideoIdsOf(dir, ep)[k]) :
                    i \in DOMAIN act.subjects, j \in DOMAIN act.supers,
                    k \in DOMAIN VideoIdsOf(dir, ep)}
    IN  [k \in keys |-> VideoWorldTrace(dir, pass_filter)]

\* The reading of the tracks raises: get_objects_annotation_data fails, or
\* the skeleton file of a video cannot be opened (line 495).
TracksRaise(dir, ep) ==
    /\ VideoIdsOf(dir, ep) # <<>>
    /\ \/ GetObjectsAnnotationData(dir.obj_files, dir.types, NoFrame, NoFrame).pc
              \in ObjErrors
       \/ ~dir.has_skeleton

\* The episodes given to the readers: None, or the key of video 1.
CacheEpisodes == {<<>>, make_key(subjects_names_all[1], super_names[1], <<"1">>)}

ReaderArgs == [load_from_files : BOOLEAN, read_tracks : BOOLEAN, episode : CacheEpisodes]

InitCache ==
    /\ reader = [state |-> "none", load_from_files |-> FALSE, read_tracks |-> FALSE,
                 episode |-> <<>>]
    /\ world_traces = <<>>
    /\ tracks_dir \in TracksDirs
    /\ disk = <<>>
    /\ saved = <<>>
    /\ opened = {}
    /\ label_files \in [Pairs -> CacheLabelFiles]
    /\ sub_time_segmentation = <<>>
    /\ sub_sequences = <<>>
    /\ seq_pc = "done" /\ seq_i = 1 /\ seq_d = 1 /\ e_frame = 0 /\ sub_seq = <<>>
    /\ episode = <<>> /\ subject_names_active = <<>> /\ super_names_active = <<>>
    /\ video_names_active = <<>> /\ times_dict = <<>>
    /\ times_s = 1 /\ times_a = 1 /\ times_l = 1 /\ times_pc = "done"
    /\ KeyIdle /\ ObjIdle /\ SkelIdle /\ TraceIdle

NewReader(args, state) ==
    [state |-> state, load_from_files |-> args.load_from_files,
     read_tracks |-> args.read_tracks, episode |-> args.episode]

\* line 96 and line 106: the segmentation and the sequences are loaded
LoadsSequences(args) == args.load_from_files /\ sub_sequences_filename # ""
\* line 129: the tracks are loaded
LoadsTracks(args) == args.load_from_files /\ ground_truth_tracks_filename # ""

\* A bug: the tracks are read whatever read_tracks is.
ReadsTracks_always(args) == TRUE

\* line 128: if self.read_tracks
ReadsTracks(args) == args.read_tracks

\* The files __init__ opens for reading (lines 98, 109, 131).
FilesToLoad(args) ==
    (IF LoadsSequences(args) THEN {SegmentationLoadPath, sub_sequences_filename} ELSE {})
        \cup (IF ReadsTracks(args) /\ LoadsTracks(args)
              THEN {ground_truth_tracks_filename} ELSE {})

\* The fields after lines 95-120.
SegmentationOf(args) ==
    IF LoadsSequences(args) THEN PickleLoad(disk[SegmentationLoadPath])
    ELSE ReadSubTimes(label_files, args.episode)

SequencesRaise(args) ==
    ~LoadsSequences(args) /\ MakeSubSequences(SegmentationOf(args)).raised

SequencesOf(args) ==
    IF LoadsSequences(args) THEN PickleLoad(disk[sub_sequences_filename])
    ELSE MakeSubSequences(SegmentationOf(args)).sub_sequences

\* The field after lines 128-138.
WorldTracesOf(args) ==
    IF ~ReadsTracks(args) THEN <<>>
    ELSE IF LoadsTracks(args) THEN <<PickleLoad(disk[ground_truth_tracks_filename])>>
    ELSE <<ReadGroundTruthTrajectories(tracks_dir, args.episode, DefaultPassFilter)>>

ConstructionRaises(args) ==
    \/ FilesToLoad(args) \ DOMAIN disk # {}
    \/ SequencesRaise(args)
    \/ ReadsTracks(args) /\ ~LoadsTracks(args) /\ TracksRaise(tracks_dir, args.episode)

\* The raw files of the tracks that read_ground_truth_trajectories opens:
\* activityLabel.txt (lines 313, 380), the detection files (line 392) and,
\* when the detections are read, the skeleton file (line 495).
RawTrackFiles(dir, ep) ==
    IF VideoIdsOf(dir, ep) = <<>> THEN {"activityLabel.txt"}
    ELSE {"activityLabel.txt", "_obj"}
         \cup (IF GetObjectsAnnotationData(dir.obj_files, dir.types, NoFrame, NoFrame).pc
                     \in ObjErrors
                THEN {} ELSE {"skeleton"})

\* The files __init__ opens, or tries to open, until it ends or raises.
OpenedBy(args) ==
    LET s1 == IF LoadsSequences(args) THEN {SegmentationLoadPath} ELSE {"labeling.txt"}
        ok1 == ~LoadsSequences(args) \/ SegmentationLoadPath \in DOMAIN disk
        s2 == IF LoadsSequences(args) THEN {sub_sequences_filename} ELSE {}
        ok2 == IF LoadsSequences(args) THEN sub_sequences_filename \in DOMAIN disk
               ELSE ~SequencesRaise(args)
        s3 == IF ~ReadsTracks(args) THEN {}
              ELSE IF LoadsTracks(args) THEN {ground_truth_tracks_filename}
              ELSE RawTrackFiles(tracks_dir, args.episode)
    IN  s1 \cup (IF ok1 THEN s2 \cup (IF ok2 THEN s3 ELSE {}) ELSE {})

\* __init__ runs to its end (lines 24-141).
Construct(args) ==
    /\ ~ConstructionRaises(args)
    /\ opened' = OpenedBy(args)
    /\ sub_time_segmentation' = SegmentationOf(args)
    /\ sub_sequences' = SequencesOf(args)
    /\ world_traces' = WorldTracesOf(args)
    /\ reader' = NewReader(args, "ready")
    /\ UNCHANGED <<tracks_dir, disk, saved, label_files>>
    /\ UNCHANGED cacheRest

\* __init__ with load_from_files=False
ConstructFromRaw ==
    \E args \in ReaderArgs : ~args.load_from_files /\ Construct(args)

\* __init__ with load_from_files=True
ConstructFromFiles ==
    \E args \in ReaderArgs : args.load_from_files /\ Construct(args)

\* __init__ raises: a cache file is missing (IOError), the segments are
\* rejected (ValueError of line 186) or the tracks cannot be read.
ConstructRaises ==
    /\ \E args \in ReaderArgs :
          /\ ConstructionRaises(args)
          /\ reader' = NewReader(args, "failed")
          /\ opened' = OpenedBy(args)
    /\ sub_time_segmentation' = <<>>
    /\ sub_sequences' = <<>>
    /\ world_traces' = <<>>
    /\ UNCHANGED <<tracks_dir, disk, saved, label_files>>
    /\ UNCHANGED cacheRest

\* What the reader holds, for the comparisons.
Snapshot ==
    [args |-> [load_from_files |-> reader.load_from_files,
               read_tracks |-> reader.read_tracks, episode |-> reader.episode],
     sub_time_segmentation |-> sub_time_segmentation,
     sub_sequences |-> sub_sequences,
     world_traces |-> world_traces]

\* lines 536-558
Save ==
    /\ reader.state = "ready"
    /\ LET d1 == WriteFile(disk, sub_sequences_filename, sub_sequences)
           d2 == WriteFile(d1, sub_time_segmentation_filename, sub_time_segmentation)
       IN  disk' = IF reader.read_tracks
                   THEN WriteFile(d2, ground_truth_tracks_filename, world_traces[1])
                   ELSE d2
    /\ saved' = <<Snapshot>>
    /\ UNCHANGED <<reader, world_traces, tracks_dir, label_files,
                   sub_time_segmentation, sub_sequences, opened>>
    /\ UNCHANGED cacheRest

NextCache == ConstructFromRaw \/ ConstructFromFiles \/ ConstructRaises \/ Save

SpecCache == InitCache /\ [][NextCache]_vars

\* ---- properties of the cache

\* The reader was loaded from the files that a reader built from the raw
\* files under the same arguments has saved last.
LoadedFromSavedBuild ==
    /\ reader.state = "ready"
    /\ reader.load_from_files
    /\ saved # <<>>
    /\ ~saved[1].args.load_from_files
    /\ saved[1].args.read_tracks = reader.read_tracks
    /\ saved[1].args.episode = reader.episode

\* The entity states of a collection of traces: key -> timestamp -> name -> state.
SameTraces(a, b) ==
    /\ DOMAIN a = DOMAIN b
    /\ \A k \in DOMAIN a :
          /\ DOMAIN a[k] = DOMAIN b[k]
          /\ \A t \in DOMAIN a[k] : a[k][t] = b[k][t]

\* C6: a reader loaded from the files saved by a reader built from the raw
\* files, under the same configuration, has the time segmentations, the
\* sub-activity sequences and the world traces (keys and per-timestamp
\* entity states) of the built reader.
C6_SaveLoadRoundTrip ==
    LoadedFromSavedBuild =>
        /\ sub_time_segmentation = saved[1].sub_time_segmentation
        /\ sub_sequences = saved[1].sub_sequences
        /\ reader.read_tracks =>
              /\ world_traces # <<>> /\ saved[1].world_traces # <<>>
              /\ SameTraces(world_traces[1], saved[1].world_traces[1])

\* A reader with segments, sequences and traces of objects and joints was
\* built, saved and loaded again.
C6_Witness ==
    /\ LoadedFromSavedBuild
    /\ reader.read_tracks
    /\ sub_time_segmentation # <<>>
    /\ sub_sequences # <<>>
    /\ world_traces # <<>>
    /\ \E k \in DOMAIN world_traces[1] :
          \E t \in DOMAIN world_traces[1][k] :
              \E n, m \in DOMAIN world_traces[1][k][t] :
                  /\ world_traces[1][k][t][n].category = "object"
                  /\ world_traces[1][k][t][m].category = "joint"
    /\ SameTraces(world_traces[1], saved[1].world_traces[1])

\* The files of the tracks: the raw ones and the cache file.
TrackFiles == {"activityLabel.txt", "_obj", "skeleton", ground_truth_tracks_filename}

\* What a cache file holds, <<>> when the file does not exist.
Artifact(d, filename) == IF filename \in DOMAIN d THEN <<d[filename]>> ELSE <<>>

\* A reader constructed with read_tracks=False has its segmentation and its
\* sequences, and no file of the tracks was opened for it.
BuiltWithoutTracks ==
    (reader.state = "ready" /\ ~reader.read_tracks) =>
        /\ world_traces = <<>>
        /\ opened \cap TrackFiles = {}
        /\ ~reader.load_from_files =>
              /\ sub_time_segmentation = ReadSubTimes(label_files, reader.episode)
              /\ sub_sequences = MakeSubSequences(sub_time_segmentation).sub_sequences
        /\ reader.load_from_files =>
              /\ sub_time_segmentation = PickleLoad(disk[sub_time_segmentation_filename])
              /\ sub_sequences = PickleLoad(disk[sub_sequences_filename])

\* save() of a reader constructed with read_tracks=False writes the
\* sequences and the segmentation and leaves the file of the tracks as it is.
SavedWithoutTracks ==
    (~reader.read_tracks /\ saved' # saved) =>
        /\ Artifact(disk', sub_sequences_filename) = <<PickleDump(sub_sequences)>>
        /\ Artifact(disk', sub_time_segmentation_filename)
              = <<PickleDump(sub_time_segmentation)>>
        /\ Artifact(disk', ground_truth_tracks_filename)
              = Artifact(disk, ground_truth_tracks_filename)

\* C15: with read_tracks=False the construction produces the time
\* segmentations and the sequences, parses no object or skeleton file and
\* loads no trace cache, and save() writes the sequences and the
\* segmentation and leaves the tracks artifact unchanged.
C15_TracksSkipped == []BuiltWithoutTracks /\ [][SavedWithoutTracks]_vars

\* A reader built from the raw files without tracks was saved while the file
\* of the tracks of an earlier reader was there.
C15_Witness ==
    /\ reader.state = "ready" /\ ~reader.read_tracks /\ ~reader.load_from_files
    /\ sub_time_segmentation # <<>> /\ sub_sequences # <<>>
    /\ saved = <<Snapshot>>
    /\ ground_truth_tracks_filename \in DOMAIN disk
    /\ PickleLoad(disk[ground_truth_tracks_filename]) # <<>>
    /\ disk[sub_sequences_filename] = PickleDump(sub_sequences)
    /\ opened = {"labeling.txt"}

(***************************************************************************)
(* The world trace of one video (lines 321-333, 345-363) and               *)
(* world_skeleton_trace_to_dict (lines 577-597)                            *)
(***************************************************************************)
\* The detection files of a video.
TraceObjFiles ==
    { <<>>,
      << << [frame |-> 1, obj_id |-> 1, box |-> <<10, 10, 20, 20>>],
            [frame |-> 2, obj_id |-> 1, box |-> <<12, 10, 22, 20>>] >> >>,
      << << [frame |-> 1, obj_id |-> 1, box |-> <<10, 10, 20, 20>>] >> >>,
      << << [frame |-> 2, obj_id |-> 1, box |-> <<10, 10, 20, 20>>] >> >>,
      << << [frame |-> 1, obj_id |-> 1, box |-> <<10, 10, 20, 20>>],
            [frame |-> 3, obj_id |-> 1, box |-> <<12, 10, 22, 20>>] >>,
         << [frame |-> 1, obj_id |-> 2, box |-> <<30, 30, 40, 44>>] >> >> }

\* The values of the argument skeleton_pass_filter.
PassFilterArgs == {DefaultPassFilter, AllJoints, <<"RF", "H">>}

RECURSIVE PairsOfFrame(_, _)
PairsOfFrame(t, names) ==
    IF names = <<>> THEN <<>> ELSE <<<<t, Head(names)>>>> \o PairsOfFrame(t, Tail(names))

RECURSIVE TracePairs(_, _)
\* lines 346-348 and 355-357: the (t, name) pairs in the order of the loops
TracePairs(fd, ts) ==
    IF ts = <<>> THEN <<>>
    ELSE PairsOfFrame(Head(ts), InSomeOrder(DOMAIN fd[Head(ts)])) \o TracePairs(fd, Tail(ts))

\* World_Trace.add_object_state_to_trace: the state is stored under its
\* timestamp and its name.
AddObjectStateToTrace(trace, st) ==
    [t \in DOMAIN trace \cup {st.timestamp} |->
        LET old == IF t \in DOMAIN trace THEN trace[t] ELSE <<>> IN
          IF t = st.timestamp
          THEN [n \in DOMAIN old \cup {st.name} |-> IF n = st.name THEN st ELSE old[n]]
          ELSE old]

\* lines 324-326: the trace is new and the detections are read
InitTrace ==
    /\ \E files \in TraceObjFiles :
          tr_frame_data = GetObjectsAnnotationData(files, [o \in ObjIds |-> "unknown"],
                                                   NoFrame, NoFrame).frame_data
    /\ \E frames \in {<<>>} \cup SkelFrameLists :
          tr_joints2D = ParseSkeletonData(<<0, 900, -1200>>, frames, NoFrame, NoFrame)
    /\ \E arg \in PassFilterArgs : skeleton_pass_filter = SkeletonPassFilter(arg)
    /\ tr_pending = TracePairs(tr_frame_data, Sorted(DOMAIN tr_frame_data))
    /\ tr_calls = <<>>
    /\ world_trace = <<>>
    /\ sorted_timestamps = <<>>
    /\ dict_i = 1
    /\ dict_s = 1
    /\ ret = <<>>
    /\ dict_from = <<>>
    /\ tr_pc = "objects"
    /\ TraceRestIdle

\* lines 349-351: one object of one frame
ObjectToTrace ==
    /\ tr_pc = "objects"
    /\ tr_pending # <<>>
    /\ LET t == Head(tr_pending)[1]
           object_name == Head(tr_pending)[2]
           object_state == ObjectState(object_name, t, tr_frame_data[t][object_name])
       IN  /\ tr_calls' = Append(tr_calls, object_state)
           /\ world_trace' = AddObjectStateToTrace(world_trace, object_state)
    /\ tr_pending' = Tail(tr_pending)
    /\ UNCHANGED <<skeleton_pass_filter, tr_frame_data, tr_joints2D, sorted_timestamps,
                   dict_i, dict_s, ret, dict_from, tr_pc>>
    /\ UNCHANGED traceRest

\* lines 352, 329-332: the objects are done, the skeleton is parsed
StartSkeleton ==
    /\ tr_pc = "objects"
    /\ tr_pending = <<>>
    /\ tr_pending' = TracePairs(tr_joints2D, Sorted(DOMAIN tr_joints2D))
    /\ tr_pc' = "joints"
    /\ UNCHANGED <<skeleton_pass_filter, tr_frame_data, tr_joints2D, tr_calls, world_trace,
                   sorted_timestamps, dict_i, dict_s, ret, dict_from>>
    /\ UNCHANGED traceRest

\* lines 357-362: one joint of one frame that is in the pass filter
JointToTrace ==
    /\ tr_pc = "joints"
    /\ tr_pending # <<>>
    /\ PassesFilter(Head(tr_pending)[2], skeleton_pass_filter)
    /\ LET t == Head(tr_pending)[1]
           joint_name == Head(tr_pending)[2]
           object_state == JointState(joint_name, t, tr_joints2D[t][joint_name])
       IN  /\ tr_calls' = Append(tr_calls, object_state)
           /\ world_trace' = AddObjectStateToTrace(world_trace, object_state)
    /\ tr_pending' = Tail(tr_pending)
    /\ UNCHANGED <<skeleton_pass_filter, tr_frame_data, tr_joints2D, sorted_timestamps,
                   dict_i, dict_s, ret, dict_from, tr_pc>>
    /\ UNCHANGED traceRest

\* lines 357-358: one joint of one frame that is not in the pass filter
JointFilteredOut ==
    /\ tr_pc = "joints"
    /\ tr_pending # <<>>
    /\ ~PassesFilter(Head(tr_pending)[2], skeleton_pass_filter)
    /\ tr_pending' = Tail(tr_pending)
    /\ UNCHANGED <<skeleton_pass_filter, tr_frame_data, tr_joints2D, tr_calls, world_trace,
                   sorted_timestamps, dict_i, dict_s, ret, dict_from, tr_pc>>
    /\ UNCHANGED traceRest

\* lines 363, 333: the trace of the video is complete
TraceBuilt ==
    /\ tr_pc = "joints"
    /\ tr_pending = <<>>
    /\ tr_pc' = "built"
    /\ UNCHANGED <<skeleton_pass_filter, tr_frame_data, tr_joints2D, tr_pending, tr_calls,
                   world_trace, sorted_timestamps, dict_i, dict_s, ret, dict_from>>
    /\ UNCHANGED traceRest

\* The order of Python on strings of digits: a proper prefix is smaller,
\* otherwise the first different digit decides.
StrLessEq(a, b) ==
    \/ \E k \in 1..Len(a) : /\ k <= Len(b)
                            /\ \A m \in 1..(k - 1) : a[m] = b[m]
                            /\ a[k] < b[k]
    \/ /\ Len(a) <= Len(b)
       /\ \A m \in 1..Len(a) : a[m] = b[m]

RECURSIVE GetSortedTimestamps(_)
\* world_trace.get_sorted_timestamps() of line 579: the keys of the trace, sorted
GetSortedTimestamps(S) ==
    IF S = {} THEN <<>>
    ELSE LET m == CHOOSE x \in S : \A y \in S : StrLessEq(x, y)
         IN  <<m>> \o GetSortedTimestamps(S \ {m})

\* The key of a joint in world_state.objects.
JointKey(s) == <<s, 0>>

\* lines 578-582
StartDict ==
    /\ tr_pc = "built"
    /\ sorted_timestamps' = GetSortedTimestamps(DOMAIN world_trace)
    /\ ret' = [s \in Range(skeleton_pass_filter) |-> <<>>]
    /\ dict_i' = 1
    /\ dict_s' = 1
    /\ tr_pc' = "dict"
    /\ UNCHANGED <<skeleton_pass_filter, tr_frame_data, tr_joints2D, tr_pending, tr_calls,
                   world_trace, dict_from>>
    /\ UNCHANGED traceRest

DictAtJoint ==
    /\ tr_pc = "dict"
    /\ dict_i <= Len(sorted_timestamps)
    /\ dict_s <= Len(skeleton_pass_filter)

DictTimestamp == sorted_timestamps[dict_i]
DictJoint == skeleton_pass_filter[dict_s]

\* sorted_timestamps[i-1] of line 593 for the i of the loop, which starts at
\* 0: the index -1 is the last timestamp
PreviousTimestamp ==
    IF dict_i = 1 THEN sorted_timestamps[Len(sorted_timestamps)]
    ELSE sorted_timestamps[dict_i - 1]

\* line 596
AppendXY(r, s, st) == [r EXCEPT ![s] = Append(@, <<st.x, st.y>>)]

\* lines 587-588, 596: the joint has a state at the timestamp
DictJointFound ==
    /\ DictAtJoint
    /\ JointKey(DictJoint) \in DOMAIN world_trace[DictTimestamp]
    /\ ret' = AppendXY(ret, DictJoint, world_trace[DictTimestamp][JointKey(DictJoint)])
    /\ dict_s' = dict_s + 1
    /\ UNCHANGED <<skeleton_pass_filter, tr_frame_data, tr_joints2D, tr_pending, tr_calls,
                   world_trace, sorted_timestamps, dict_i, dict_from, tr_pc>>
    /\ UNCHANGED traceRest

\* lines 589-596: the joint has no state at the timestamp, the state of
\* sorted_timestamps[i-1] is stored at the timestamp
DictJointCopied ==
    /\ DictAtJoint
    /\ JointKey(DictJoint) \notin DOMAIN world_trace[DictTimestamp]
    /\ JointKey(DictJoint) \in DOMAIN world_trace[PreviousTimestamp]
    /\ LET previous_object_state == world_trace[PreviousTimestamp][JointKey(DictJoint)]
           objects == world_trace[DictTimestamp]
       IN  /\ world_trace' =
                 [world_trace EXCEPT ![DictTimestamp] =
                     [n \in DOMAIN objects \cup {JointKey(DictJoint)} |->
                         IF n = JointKey(DictJoint) THEN previous_object_state
                         ELSE objects[n]]]
           /\ ret' = AppendXY(ret, DictJoint, previous_object_state)
    /\ dict_from' = [k \in DOMAIN dict_from \cup {<<dict_i, DictJoint>>} |->
                        IF k = <<dict_i, DictJoint>> THEN PreviousTimestamp
                        ELSE dict_from[k]]
    /\ dict_s' = dict_s + 1
    /\ UNCHANGED <<skeleton_pass_filter, tr_frame_data, tr_joints2D, tr_pending, tr_calls,
                   sorted_timestamps, dict_i, tr_pc>>
    /\ UNCHANGED traceRest

\* line 593 raises KeyError: sorted_timestamps[i-1] has no state of the joint
DictRaisesKeyError ==
    /\ DictAtJoint
    /\ JointKey(DictJoint) \notin DOMAIN world_trace[DictTimestamp]
    /\ JointKey(DictJoint) \notin DOMAIN world_trace[PreviousTimestamp]
    /\ tr_pc' = "KeyError"
    /\ UNCHANGED <<skeleton_pass_filter, tr_frame_data, tr_joints2D, tr_pending, tr_calls,
                   world_trace, sorted_timestamps, dict_i, dict_s, ret, dict_from>>
    /\ UNCHANGED traceRest

\* the loop of line 586 ends: the next timestamp
DictNextTimestamp ==
    /\ tr_pc = "dict"
    /\ dict_i <= Len(sorted_timestamps)
    /\ dict_s > Len(skeleton_pass_filter)
    /\ dict_i' = dict_i + 1
    /\ dict_s' = 1
    /\ UNCHANGED <<skeleton_pass_filter, tr_frame_data, tr_joints2D, tr_pending, tr_calls,
                   world_trace, sorted_timestamps, ret, dict_from, tr_pc>>
    /\ UNCHANGED traceRest

\* line 597
ReturnDict ==
    /\ tr_pc = "dict"
    /\ dict_i > Len(sorted_timestamps)
    /\ tr_pc' = "done"
    /\ UNCHANGED <<skeleton_pass_filter, tr_frame_data, tr_joints2D, tr_pending, tr_calls,
                   world_trace, sorted_timestamps, dict_i, dict_s, ret, dict_from>>
    /\ UNCHANGED traceRest

NextTrace ==
    \/ ObjectToTrace
    \/ StartSkeleton
    \/ JointToTrace
    \/ JointFilteredOut
    \/ TraceBuilt
    \/ StartDict
    \/ DictJointFound
    \/ DictJointCopied
    \/ DictRaisesKeyError
    \/ DictNextTimestamp
    \/ ReturnDict

SpecTrace == InitTrace /\ [][NextTrace]_vars

\* ---- properties of the world trace

\* The steps give the trace that the calls give.
AgreeTrace ==
    (tr_pc \in {"objects", "joints", "built"} /\ tr_calls # <<>>) =>
        world_trace = TraceOfCalls(tr_calls)

\* C11: the calls of add_object_state_to_trace made for a video, object
\* states and joint states together, are in non-decreasing timestamp order.
C11_CallsInTimestampOrder ==
    \A i, j \in DOMAIN tr_calls :
        i < j => FrameOf(tr_calls[i].timestamp) <= FrameOf(tr_calls[j].timestamp)

\* The joints that have a state at a timestamp of the trace.
JointsAt(t) == {n[1] : n \in {m \in DOMAIN world_trace[t] : world_trace[t][m].category = "joint"}}

\* C12: at every frame the trace of a video holds only joints of the pass
\* filter (H, LH and RH by default, the 15 joints for "all"), and every joint
\* of the filter that was parsed for a frame has its state at that frame.
C12_OnlyFilteredJoints ==
    /\ Range(SkeletonPassFilter(DefaultPassFilter)) = {"H", "LH", "RH"}
    /\ Range(SkeletonPassFilter(AllJoints)) = JointNames
    /\ \A t \in DOMAIN world_trace : JointsAt(t) \subseteq Range(skeleton_pass_filter)
    /\ tr_pc = "built" =>
          \A f \in DOMAIN tr_joints2D :
              \A j \in Range(skeleton_pass_filter) \cap DOMAIN tr_joints2D[f] :
                  /\ Str(f) \in DOMAIN world_trace
                  /\ JointKey(j) \in DOMAIN world_trace[Str(f)]
                  /\ world_trace[Str(f)][JointKey(j)]
                         = JointState(j, f, tr_joints2D[f][j])

\* The trace of a video with two skeleton frames was built under the default
\* filter: 12 joints of each frame were left out and H, LH and RH are there,
\* next to an object.
C12_Witness ==
    /\ tr_pc = "built"
    /\ skeleton_pass_filter = DefaultPassFilter
    /\ Cardinality(DOMAIN tr_joints2D) = 2
    /\ \A f \in DOMAIN tr_joints2D :
          /\ DOMAIN tr_joints2D[f] = JointNames
          /\ JointsAt(Str(f)) = {"H", "LH", "RH"}
    /\ \E t \in DOMAIN world_trace :
          \E n \in DOMAIN world_trace[t] : world_trace[t][n].category = "object"

\* The trace as the video was read, before world_skeleton_trace_to_dict
\* stores states in it.
TraceAsRead == IF tr_calls = <<>> THEN <<>> ELSE TraceOfCalls(tr_calls)

\* The joint has a state at the i-th sorted timestamp of the trace as read.
HasState(s, i) == JointKey(s) \in DOMAIN TraceAsRead[sorted_timestamps[i]]

\* (x, y) of that state
StateXY(s, i) ==
    LET st == TraceAsRead[sorted_timestamps[i]][JointKey(s)] IN <<st.x, st.y>>

\* C14: world_skeleton_trace_to_dict returns, for every joint of the pass
\* filter, one (x, y) per sorted timestamp; where the joint has no state, it
\* is the joint's last known state of an earlier timestamp, never one of a
\* later timestamp.
C14_DictRepeatsLastKnownState ==
    tr_pc = "done" =>
        \A s \in Range(skeleton_pass_filter) :
            /\ Len(ret[s]) = Len(sorted_timestamps)
            /\ \A i \in 1..Len(sorted_timestamps) :
                  IF HasState(s, i) THEN ret[s][i] = StateXY(s, i)
                  ELSE \E j \in 1..(i - 1) :
                          /\ HasState(s, j)
                          /\ \A k \in (j + 1)..(i - 1) : ~HasState(s, k)
                          /\ ret[s][i] = StateXY(s, j)

====
